---- MODULE Spec2Model ----
(***************************************************************************)
(* The context-capability classifier of support/webhooks-to-contexts.py:   *)
(* the recursive schema walker (walk_schema), the capability join          *)
(* (unify_capabilities), the aggregation loop (process_schemas) and the    *)
(* script body that binds schemas to trigger events, aggregates, applies   *)
(* the known-safe overrides and writes the mapping.                        *)
(*                                                                         *)
(* A schema node (a Python dict) is a function whose DOMAIN is the set of  *)
(* keys present.  Values that Python distinguishes by their runtime type   *)
(* carry a tag: a `type` is Str(t) or List(<<t1, ...>>), an                *)
(* `additionalProperties` is JTrue, JFalse, JNull, JDict(d) or JStr(s).    *)
(* `properties` is the insertion-ordered sequence of [name, schema].       *)
(***************************************************************************)
EXTENDS Integers, Sequences, FiniteSets, TLC

VARIABLES
    pc,                        \* position in the script / in the walk
    schemas,                   \* webhook key -> payload schema (line 346)
    schemas_for_event,         \* per event, the list of its schemas (line 353)
    safe_contexts,             \* the override list (line 328)
    patterns_to_capabilities,  \* the accumulating mapping (line 364)
    ei, si,                    \* event / schema being processed (lines 365, 317)
    cur, top,                  \* the schema being walked and its path prefix
    res,                       \* what the generator of this walk produces
    pos,                       \* number of pairs of res already consumed
    oi,                        \* number of overrides already applied
    yielded,                   \* history: every pair the walker has handed over
    lastMerge,                 \* history: the last update of the mapping
    error,                     \* the exception that ended the run, if any
    out                        \* the CSV file: whether written, and its rows

vars == <<pc, schemas, schemas_for_event, safe_contexts,
          patterns_to_capabilities, ei, si, cur, top, res, pos, oi,
          yielded, lastMerge, error, out>>

(***************************** bounds **************************************)

\* Number of entries of the trigger table that a run processes.
MaxEvents == 2

(***************************** JSON values *********************************)

EmptyDict == <<>>

None == [list |-> FALSE, tags |-> <<>>]
Str(t) == [list |-> FALSE, tags |-> <<t>>]
List(ts) == [list |-> TRUE, tags |-> ts]

JTrue == [json |-> "true"]
JFalse == [json |-> "false"]
JNull == [json |-> "null"]
JDict(d) == [json |-> "dict", d |-> d]
JStr(s) == [json |-> "str", s |-> s]

Capability == {"arbitrary", "structured", "fixed"}

(***************************** the walker **********************************)

NoError == "none"

\* What a (possibly failing) generator produces: the pairs it yields, in
\* order, and the assertion that ends it, if any.
Nothing == [pairs |-> <<>>, err |-> NoError]
Yield(pattern, cap) == [pairs |-> <<<<pattern, cap>>>>, err |-> NoError]
Fail(msg) == [pairs |-> <<>>, err |-> msg]

\* Sequential composition of two generator bodies: b runs only if a did
\* not raise.
Then(a, b) ==
    IF a.err # NoError THEN a
    ELSE [pairs |-> a.pairs \o b.pairs, err |-> b.err]

\* schema.get("type")
TypeOf(schema) == IF "type" \in DOMAIN schema THEN schema.type ELSE None

RECURSIVE walk_schema(_, _, _)
RECURSIVE walk_each(_, _)
RECURSIVE walk_properties(_, _)

\* for subtype in schema[subschema]: yield from walk_schema(subtype, top)
walk_each(subschemas, t) ==
    IF subschemas = <<>> THEN Nothing
    ELSE Then(walk_schema(Head(subschemas), t, None),
              walk_each(Tail(subschemas), t))

\* for prop, prop_schema in properties.items(): yield from walk_schema(...)
walk_properties(properties, t) ==
    IF properties = <<>> THEN Nothing
    ELSE Then(walk_schema(Head(properties).schema,
                          t \o "." \o Head(properties).name, None),
              walk_properties(Tail(properties), t))

\* The loop over a list-valued type: its `return` sits inside the loop
\* body, so the generator ends after the first subtype.
walk_union(schema, t, typ) ==
    walk_schema(schema, t, Str(Head(typ.tags)))

CompositionKeys == <<"allOf", "anyOf", "oneOf">>

HasComposition(schema) ==
    \E i \in 1..Len(CompositionKeys) : CompositionKeys[i] \in DOMAIN schema

\* The first key of CompositionKeys, in that order, present in schema.
FirstComposition(schema) ==
    CompositionKeys[CHOOSE i \in 1..Len(CompositionKeys) :
        /\ CompositionKeys[i] \in DOMAIN schema
        /\ \A j \in 1..(i - 1) : CompositionKeys[j] \notin DOMAIN schema]

walk_composition_last(schema, t) ==
    walk_each(schema[CompositionKeys[CHOOSE i \in 1..Len(CompositionKeys) :
        /\ CompositionKeys[i] \in DOMAIN schema
        /\ \A j \in (i + 1)..Len(CompositionKeys) :
               CompositionKeys[j] \notin DOMAIN schema]], t)

walk_composition(schema, t) ==
    walk_each(schema[FirstComposition(schema)], t)

\* match additional_properties: `{}` is a mapping pattern, and a mapping
\* pattern without keys matches every dict.
walk_additional(schema, t) ==
    LET additional_properties ==
            IF "additionalProperties" \in DOMAIN schema
            THEN schema.additionalProperties ELSE JNull
    IN  CASE additional_properties.json \in {"true", "dict"} ->
                Yield(t \o ".*", "arbitrary")
          [] additional_properties.json \in {"false", "null"} -> Nothing
          [] OTHER -> Fail("Unknown additionalProperties")

walk_object_silent_when_empty(schema, t) ==
    LET properties ==
            IF "properties" \in DOMAIN schema THEN schema.properties ELSE <<>>
    IN  Then(walk_properties(properties, t), walk_additional(schema, t))

walk_object(schema, t) ==
    LET properties ==
            IF "properties" \in DOMAIN schema THEN schema.properties ELSE <<>>
    IN  Then(IF properties = <<>> THEN Yield(t, "arbitrary")
             ELSE walk_properties(properties, t),
             walk_additional(schema, t))

walk_array_no_wildcard(schema, t) ==
    LET items == IF "items" \in DOMAIN schema THEN schema.items ELSE EmptyDict
    IN  IF items = EmptyDict THEN Fail("Empty array schema")
        ELSE walk_schema(items, t, None)

walk_array(schema, t) ==
    LET items == IF "items" \in DOMAIN schema THEN schema.items ELSE EmptyDict
    IN  IF items = EmptyDict THEN Fail("Empty array schema")
        ELSE walk_schema(items, t \o ".*", None)

walk_string_enum_ignored(schema, t) ==
    IF "format" \notin DOMAIN schema THEN Yield(t, "arbitrary")
    ELSE CASE schema.format = "date-time" -> Yield(t, "fixed")
           [] schema.format \in {"uri", "uri-template", "email"} ->
                Yield(t, "structured")
           [] OTHER -> Fail("Unknown string format")

walk_string(schema, t) ==
    IF "format" \notin DOMAIN schema
    THEN IF "enum" \in DOMAIN schema THEN Yield(t, "fixed")
         ELSE Yield(t, "arbitrary")
    ELSE CASE schema.format = "date-time" -> Yield(t, "fixed")
           [] schema.format \in {"uri", "uri-template", "email"} ->
                Yield(t, "structured")
           [] OTHER -> Fail("Unknown string format")

walk_match_lenient(schema, t, typ) ==
    IF typ.list \/ typ = None THEN Nothing
    ELSE LET tag == typ.tags[1]
         IN  CASE tag = "object" -> walk_object(schema, t)
               [] tag = "array" ->
                    IF "items" \in DOMAIN schema /\ schema.items # EmptyDict
                    THEN walk_array(schema, t) ELSE Nothing
               [] tag \in {"boolean", "integer", "number", "null"} ->
                    Yield(t, "fixed")
               [] tag = "string" ->
                    IF walk_string(schema, t).err # NoError
                    THEN Yield(t, "arbitrary") ELSE walk_string(schema, t)
               [] OTHER -> Nothing

\* match typ: (a list reaches here only when it is empty)
walk_match(schema, t, typ) ==
    IF typ.list \/ typ = None THEN Fail("Unknown schema type")
    ELSE LET tag == typ.tags[1]
         IN  CASE tag = "object" -> walk_object(schema, t)
               [] tag = "array" -> walk_array(schema, t)
               [] tag \in {"boolean", "integer", "number", "null"} ->
                    Yield(t, "fixed")
               [] tag = "string" -> walk_string(schema, t)
               [] OTHER -> Fail("Unknown schema type")

walk_schema(schema, t, typ0) ==
    LET typ == IF typ0 = None THEN TypeOf(schema) ELSE typ0
    IN  IF typ.list /\ typ.tags # <<>> THEN walk_union(schema, t, typ)
        ELSE IF HasComposition(schema) THEN walk_composition(schema, t)
        ELSE walk_match(schema, t, typ)

(***************************** the walker's inputs *************************)

Range(s) == {s[i] : i \in 1..Len(s)}

Formats == {"date-time", "uri", "uri-template", "email"}
ScalarTypes == {"boolean", "integer", "number", "null", "string"}

TypeParts ==
    {EmptyDict} \cup
    {[type |-> Str(tag)] : tag \in ScalarTypes \cup {"object", "array", "bogus"}}
FormatParts == {EmptyDict} \cup {[format |-> f] : f \in Formats \cup {"binary"}}
EnumParts == {EmptyDict, [enum |-> <<"a", "b">>]}

\* Nodes without children: every type tag with every format, with and
\* without an enum.
LeafNodes == {tp @@ fp @@ ep : tp \in TypeParts, fp \in FormatParts, ep \in EnumParts}

FreeText == [type |-> Str("string")]
Uri == [type |-> Str("string"), format |-> "uri"]
Number == [type |-> Str("integer")]
EmptyArray == [type |-> Str("array"), items |-> EmptyDict]
Bogus == [type |-> Str("bogus")]
Named == [type |-> Str("object"),
          properties |-> <<[name |-> "name", schema |-> FreeText]>>]

SubNodes == {FreeText, Uri, Number, EmptyArray, Bogus}

PropertyParts ==
    {EmptyDict, [properties |-> <<>>]}
    \cup {[properties |-> <<[name |-> "a", schema |-> s]>>] : s \in SubNodes}
    \cup {[properties |-> <<[name |-> "a", schema |-> s1],
                            [name |-> "b", schema |-> s2]>>] :
              s1 \in SubNodes, s2 \in {Uri, Bogus}}
AdditionalParts ==
    {EmptyDict} \cup
    {[additionalProperties |-> v] :
        v \in {JTrue, JFalse, JNull, JDict(EmptyDict), JDict(FreeText), JStr("x")}}

ObjectNodes ==
    {[type |-> Str("object")] @@ pp @@ ap :
        pp \in PropertyParts, ap \in AdditionalParts}

ArrayNodes ==
    {[type |-> Str("array"), items |-> s] :
        s \in SubNodes \cup {EmptyDict, Named,
                              [type |-> Str("array"), items |-> Named]}}

TagLists ==
    {<<>>, <<"string">>, <<"string", "null">>, <<"null", "string">>,
     <<"string", "bogus">>, <<"bogus", "string">>, <<"array", "string">>,
     <<"integer", "string", "null">>, <<"object", "null">>}

UnionNodes ==
    {[type |-> List(ts)] @@ extra :
        ts \in TagLists,
        extra \in {EmptyDict, [format |-> "uri"], [enum |-> <<"a">>],
                   [items |-> FreeText], [additionalProperties |-> JStr("x")]}}

AltLists == {<<>>, <<FreeText>>, <<Number, Uri>>, <<Uri, EmptyArray, Number>>}

OwnParts ==
    {EmptyDict,
     [type |-> Str("object"),
      properties |-> <<[name |-> "a", schema |-> FreeText]>>,
      additionalProperties |-> JTrue],
     [type |-> List(<<"string", "null">>)],
     [type |-> Str("array"), items |-> FreeText]}

CompositionNodes ==
    {own @@ a @@ b @@ c :
        own \in OwnParts,
        a \in {EmptyDict} \cup {[allOf |-> l] : l \in AltLists},
        b \in {EmptyDict} \cup {[anyOf |-> l] : l \in AltLists},
        c \in {EmptyDict} \cup {[oneOf |-> l] : l \in AltLists}}

NodePool ==
    LeafNodes \cup ObjectNodes \cup ArrayNodes \cup UnionNodes
    \cup CompositionNodes

TopPool == {"github.event", "p.*"}

(***************************** walking one node ****************************)

NotWritten == [written |-> FALSE, rows |-> {}]

NotWalked == [pairs |-> <<>>, err |-> "not walked"]

WalkInit ==
    /\ pc = "walk"
    /\ cur \in NodePool
    /\ top \in TopPool
    /\ res = NotWalked
    /\ schemas = EmptyDict
    /\ schemas_for_event = <<>>
    /\ safe_contexts = <<>>
    /\ patterns_to_capabilities = EmptyDict
    /\ ei = 0 /\ si = 0 /\ pos = 0 /\ oi = 0
    /\ yielded = {}
    /\ lastMerge = <<>>
    /\ error = NoError
    /\ out = NotWritten

\* list(walk_schema(cur, top)), or the assertion it raises
Walk ==
    /\ pc = "walk"
    /\ res' = walk_schema(cur, top, None)
    /\ pc' = "walked"
    /\ UNCHANGED <<schemas, schemas_for_event, safe_contexts,
                   patterns_to_capabilities, ei, si, cur, top, pos, oi,
                   yielded, lastMerge, error, out>>

WalkNext == Walk

WalkSpec == WalkInit /\ [][WalkNext]_vars

(***************************** the aggregator ******************************)

unify_last_wins(old, new) == new

unify_no_structured(old, new) ==
    IF "arbitrary" \in {old, new} THEN "arbitrary" ELSE old

unify_least_permissive(old, new) ==
    LET caps == {old, new}
    IN  IF "fixed" \in caps THEN "fixed"
        ELSE IF "structured" \in caps THEN "structured"
        ELSE old

unify_capabilities(old, new) ==
    LET caps == {old, new}
    IN  IF "arbitrary" \in caps THEN "arbitrary"
        ELSE IF "structured" \in caps THEN "structured"
        ELSE old

merge_pair_overwrite(m, pair) == (pair[1] :> pair[2]) @@ m

\* The body of the inner loop of process_schemas: the mapping after one
\* (pattern, cap) pair.
merge_pair(m, pair) ==
    LET pattern == pair[1]
        cap == IF pattern \in DOMAIN m
               THEN unify_capabilities(m[pattern], pair[2])
               ELSE pair[2]
    IN  (pattern :> cap) @@ m

RECURSIVE merge_pairs(_, _)
merge_pairs(m, pairs) ==
    IF pairs = <<>> THEN m
    ELSE merge_pairs(merge_pair(m, Head(pairs)), Tail(pairs))

Top == "github.event"

\* process_schemas(event, schemas, m): the mapping when the loop ends, and
\* the assertion that ended it, if any.
RECURSIVE process_schemas(_, _)
process_schemas(schemas_, m) ==
    IF schemas_ = <<>> THEN [m |-> m, err |-> NoError]
    ELSE LET r == walk_schema(Head(schemas_), Top, None)
             m1 == merge_pairs(m, r.pairs)
         IN  IF r.err # NoError THEN [m |-> m1, err |-> r.err]
             ELSE process_schemas(Tail(schemas_), m1)

override_if_absent(m, context) ==
    IF context \in DOMAIN m THEN m ELSE (context :> "fixed") @@ m

override_existing_only(m, context) ==
    IF context \in DOMAIN m THEN (context :> "fixed") @@ m ELSE m

\* patterns_to_capabilities[context] = "fixed"
override(m, context) == (context :> "fixed") @@ m

\* Lines 364-367: process_schemas over the events in order.
RECURSIVE process_events(_, _)
process_events(sfe, m) ==
    IF sfe = <<>> THEN [m |-> m, err |-> NoError]
    ELSE LET r == process_schemas(Head(sfe).schemas, m)
         IN  IF r.err # NoError THEN r ELSE process_events(Tail(sfe), r.m)

\* Lines 370-371.
RECURSIVE apply_overrides(_, _)
apply_overrides(m, contexts) ==
    IF contexts = <<>> THEN m
    ELSE apply_overrides(override(m, Head(contexts)), Tail(contexts))

(***************************** the script's inputs *************************)

\* An excerpt of the trigger table, in the table's order.  A name is the
\* sequence of its words: "registry_package" is <<"registry", "package">>.
WORKFLOW_TRIGGERS_TO_EVENTS ==
    << [event |-> <<"push">>, subevents |-> <<>>],
       [event |-> <<"registry", "package">>,
        subevents |-> << <<"published">>, <<"updated">> >>],
       [event |-> <<"status">>, subevents |-> <<>>],
       [event |-> <<"workflow", "run">>,
        subevents |-> << <<"completed">>, <<"in", "progress">>,
                         <<"requested">> >>] >>

Min(a, b) == IF a < b THEN a ELSE b

Triggers ==
    SubSeq(WORKFLOW_TRIGGERS_TO_EVENTS, 1,
           Min(MaxEvents, Len(WORKFLOW_TRIGGERS_TO_EVENTS)))

RECURSIVE Join(_, _)
Join(words, sep) ==
    IF Len(words) = 1 THEN words[1]
    ELSE words[1] \o sep \o Join(Tail(words), sep)

\* The name as written in the table.
Name(words) == Join(words, "_")

\* f"webhook-{event.replace('_', '-')}"
EventKey(event) == "webhook-" \o Join(event, "-")

\* f"webhook-{event.replace('_', '-')}-{subevent.replace('_', '-')}"
SubeventKey(event, subevent) ==
    "webhook-" \o Join(event, "-") \o "-" \o Join(subevent, "-")

\* The keys one table entry looks up, in order.
KeysOf(entry) ==
    IF entry.subevents = <<>> THEN <<EventKey(entry.event)>>
    ELSE [i \in 1..Len(entry.subevents) |->
              SubeventKey(entry.event, entry.subevents[i])]

NeededKeys == UNION {Range(KeysOf(Triggers[i])) : i \in 1..Len(Triggers)}

Prop(n, s) == [name |-> n, schema |-> s]

\* Payload schemas: they share patterns with different capabilities; one
\* yields a pair and then hits an empty array schema; one carries a
\* constraining additionalProperties schema.
RootPool ==
    { [type |-> Str("object"), properties |-> <<Prop("a", Number)>>],
      [type |-> Str("object"),
       properties |-> <<Prop("a", FreeText), Prop("b", Uri)>>],
      [type |-> Str("object"),
       properties |-> <<Prop("a", [type |-> Str("string"), format |-> "email"]),
                        Prop("b", [type |-> Str("boolean")])>>],
      [type |-> Str("object"),
       properties |-> <<Prop("b", FreeText), Prop("c", EmptyArray)>>],
      [type |-> Str("object"),
       properties |-> <<Prop("a", [type |-> Str("string"),
                                   format |-> "date-time"])>>,
       additionalProperties |-> JDict(FreeText)] }

SafeContextPool ==
    { <<>>, <<"github.event.a">>, <<"github.event.b", "github.event.safe">> }

(***************************** the script **********************************)

Init ==
    /\ pc = "bind"
    /\ schemas \in UNION {[K -> RootPool] : K \in SUBSET NeededKeys}
    /\ safe_contexts \in SafeContextPool
    /\ schemas_for_event = <<>>
    /\ patterns_to_capabilities = EmptyDict
    /\ ei = 1 /\ si = 1 /\ pos = 0 /\ oi = 0
    /\ cur = EmptyDict
    /\ top = Top
    /\ res = NotWalked
    /\ yielded = {}
    /\ lastMerge = <<>>
    /\ error = NoError
    /\ out = NotWritten

Bind_skips_missing ==
    /\ pc = "bind"
    /\ LET bound ==
               [i \in 1..Len(Triggers) |->
                   [event |-> Name(Triggers[i].event),
                    schemas |->
                        LET present == SelectSeq(KeysOf(Triggers[i]),
                                                 LAMBDA k : k \in DOMAIN schemas)
                        IN  [j \in 1..Len(present) |-> schemas[present[j]]]]]
           kept == SelectSeq(bound, LAMBDA e : e.schemas # <<>>)
       IN  /\ schemas_for_event' = kept
           /\ pc' = IF kept = <<>> THEN "override" ELSE "process"
    /\ UNCHANGED <<schemas, safe_contexts, patterns_to_capabilities, ei, si,
                   cur, top, res, pos, oi, yielded, lastMerge, error, out>>

\* Lines 353-362: a missing key raises KeyError before any schema is walked.
Bind ==
    /\ pc = "bind"
    /\ IF NeededKeys \subseteq DOMAIN schemas
       THEN /\ schemas_for_event' =
                  [i \in 1..Len(Triggers) |->
                      [event |-> Name(Triggers[i].event),
                       schemas |-> [j \in 1..Len(KeysOf(Triggers[i])) |->
                                       schemas[KeysOf(Triggers[i])[j]]]]]
            /\ pc' = IF Triggers = <<>> THEN "override" ELSE "process"
            /\ error' = error
       ELSE /\ pc' = "failed"
            /\ error' = "KeyError"
            /\ UNCHANGED schemas_for_event
    /\ UNCHANGED <<schemas, safe_contexts, patterns_to_capabilities, ei, si,
                   cur, top, res, pos, oi, yielded, lastMerge, out>>

\* Line 318: the generator of the next schema is created.
StartWalk ==
    /\ pc = "process"
    /\ cur' = schemas_for_event[ei].schemas[si]
    /\ top' = Top
    /\ res' = walk_schema(schemas_for_event[ei].schemas[si], Top, None)
    /\ pos' = 0
    /\ pc' = "walking"
    /\ UNCHANGED <<schemas, schemas_for_event, safe_contexts,
                   patterns_to_capabilities, ei, si, oi, yielded, lastMerge,
                   error, out>>

\* Lines 319-321: one pair is taken from the generator and merged.
Merge ==
    /\ pc = "walking"
    /\ pos < Len(res.pairs)
    /\ LET pair == res.pairs[pos + 1]
       IN  /\ patterns_to_capabilities' =
                 merge_pair(patterns_to_capabilities, pair)
           /\ yielded' = yielded \cup {pair}
           /\ lastMerge' =
                 <<pair[1],
                   IF pair[1] \in DOMAIN patterns_to_capabilities
                   THEN patterns_to_capabilities[pair[1]] ELSE "absent",
                   pair[2]>>
    /\ pos' = pos + 1
    /\ UNCHANGED <<pc, schemas, schemas_for_event, safe_contexts, ei, si,
                   cur, top, res, oi, error, out>>

\* The generator raises; nothing catches it.
Raise ==
    /\ pc = "walking"
    /\ pos = Len(res.pairs)
    /\ res.err # NoError
    /\ pc' = "failed"
    /\ error' = res.err
    /\ UNCHANGED <<schemas, schemas_for_event, safe_contexts,
                   patterns_to_capabilities, ei, si, cur, top, res, pos, oi,
                   yielded, lastMerge, out>>

\* The generator is exhausted: on to the next schema, the next event, or
\* the overrides.
EndWalk ==
    /\ pc = "walking"
    /\ pos = Len(res.pairs)
    /\ res.err = NoError
    /\ IF si < Len(schemas_for_event[ei].schemas)
       THEN si' = si + 1 /\ ei' = ei /\ pc' = "process"
       ELSE /\ si' = 1
            /\ ei' = ei + 1
            /\ pc' = IF ei < Len(schemas_for_event) THEN "process"
                     ELSE "override"
    /\ UNCHANGED <<schemas, schemas_for_event, safe_contexts,
                   patterns_to_capabilities, cur, top, res, pos, oi, yielded,
                   lastMerge, error, out>>

\* Lines 370-371, one context.
Override ==
    /\ pc = "override"
    /\ oi < Len(safe_contexts)
    /\ patterns_to_capabilities' =
          override(patterns_to_capabilities, safe_contexts[oi + 1])
    /\ oi' = oi + 1
    /\ UNCHANGED <<pc, schemas, schemas_for_event, safe_contexts, ei, si,
                   cur, top, res, pos, yielded, lastMerge, error, out>>

\* Lines 373-376.  The rows are written sorted by pattern; the file is
\* kept here as the set of its rows.
Write ==
    /\ pc = "override"
    /\ oi = Len(safe_contexts)
    /\ out' = [written |-> TRUE,
               rows |-> {<<p, patterns_to_capabilities[p]>> :
                            p \in DOMAIN patterns_to_capabilities}]
    /\ pc' = "done"
    /\ UNCHANGED <<schemas, schemas_for_event, safe_contexts,
                   patterns_to_capabilities, ei, si, cur, top, res, pos, oi,
                   yielded, lastMerge, error>>

Next ==
    \/ Bind
    \/ StartWalk
    \/ Merge
    \/ Raise
    \/ EndWalk
    \/ Override
    \/ Write

Spec == Init /\ [][Next]_vars

(***************************** properties of the walker ********************)
(* Checked under WalkSpec: cur and top are the inputs of one call of       *)
(* walk_schema, res is what the call produced.                             *)

Walked == pc = "walked"

\* The pairs of one call of walk_schema per tag of a list-valued type.
C1_PerTag == [i \in 1..Len(TypeOf(cur).tags) |->
                 walk_schema(cur, top, Str(TypeOf(cur).tags[i]))]

\* C1: a node whose type is a list of tags yields the union of the leaves
\* of walking it once per tag of the list; a node typed string-or-null, in
\* either order, without format and enum, yields (top, arbitrary) and
\* (top, fixed), which unify to arbitrary.
C1_UnionYieldsEveryTag ==
    (Walked /\ TypeOf(cur).list) =>
        /\ (\A i \in DOMAIN C1_PerTag : C1_PerTag[i].err = NoError) =>
              Range(res.pairs) =
                  UNION {Range(C1_PerTag[i].pairs) : i \in DOMAIN C1_PerTag}
        /\ ( /\ Range(TypeOf(cur).tags) = {"string", "null"}
             /\ DOMAIN cur = {"type"} ) =>
              /\ Range(res.pairs) = {<<top, "arbitrary">>, <<top, "fixed">>}
              /\ merge_pairs(EmptyDict, res.pairs)[top] = "arbitrary"

\* C2: an object node whose additionalProperties is a non-empty schema (or
\* any value other than true, false, absent, the empty schema) makes the
\* walk fail, and no (top.*, arbitrary) leaf is yielded for it.
C2_ConstrainingAdditionalFails ==
    ( /\ Walked
      /\ TypeOf(cur) = Str("object")
      /\ ~HasComposition(cur)
      /\ "additionalProperties" \in DOMAIN cur
      /\ cur.additionalProperties \notin {JTrue, JFalse, JNull, JDict(EmptyDict)} )
    => /\ res.err # NoError
       /\ <<top \o ".*", "arbitrary">> \notin Range(res.pairs)

\* The table of section 4.1, step 5.
C7_Table(schema) ==
    LET tag == schema.type.tags[1]
    IN  CASE tag \in {"boolean", "integer", "number", "null"} -> "fixed"
          [] tag = "string" /\ "format" \in DOMAIN schema
                /\ schema.format = "date-time" -> "fixed"
          [] tag = "string" /\ "format" \in DOMAIN schema
                /\ schema.format \in {"uri", "uri-template", "email"} ->
                "structured"
          [] tag = "string" /\ "format" \notin DOMAIN schema
                /\ "enum" \in DOMAIN schema -> "fixed"
          [] tag = "string" /\ "format" \notin DOMAIN schema
                /\ "enum" \notin DOMAIN schema -> "arbitrary"

C7_InTable(schema) ==
    /\ ~HasComposition(schema)
    /\ "type" \in DOMAIN schema
    /\ ~schema.type.list
    /\ schema.type.tags[1] \in ScalarTypes
    /\ (schema.type.tags[1] = "string" /\ "format" \in DOMAIN schema)
          => schema.format \in Formats

\* C7: a scalar node yields exactly one pair, (top, c), with c given by
\* the table: boolean, integer, number, null -> fixed; string by format,
\* and without format by the presence of an enum.
C7_ScalarTable ==
    (Walked /\ C7_InTable(cur)) =>
        res = [pairs |-> <<<<top, C7_Table(cur)>>>>, err |-> NoError]

C7_Witness ==
    /\ Walked
    /\ cur = [type |-> Str("string"), enum |-> <<"a", "b">>]
    /\ res.pairs = <<<<top, "fixed">>>>

\* C9: with no composition key and a type that is one tag or missing, an
\* array node with empty or missing items, a node whose type is none of
\* the seven supported tags (or missing), and a string node with a format
\* outside date-time, uri, uri-template, email, all fail, and yield no
\* pair.
C9_MalformedFails ==
    ( /\ Walked
      /\ ~HasComposition(cur)
      /\ ~(TypeOf(cur).list /\ TypeOf(cur).tags # <<>>) ) =>
        LET typ == TypeOf(cur)
            tag == IF typ.list \/ typ = None THEN "" ELSE typ.tags[1]
        IN  /\ ( /\ tag = "array"
                 /\ ("items" \notin DOMAIN cur \/ cur.items = EmptyDict) )
                  => res = [pairs |-> <<>>, err |-> "Empty array schema"]
            /\ tag \notin ScalarTypes \cup {"object", "array"}
                  => res = [pairs |-> <<>>, err |-> "Unknown schema type"]
            /\ ( /\ tag = "string"
                 /\ "format" \in DOMAIN cur
                 /\ cur.format \notin Formats )
                  => res = [pairs |-> <<>>, err |-> "Unknown string format"]

C9_Witness ==
    /\ Walked
    /\ cur = [type |-> Str("array"), items |-> EmptyDict]
    /\ res = [pairs |-> <<>>, err |-> "Empty array schema"]

\* The alternatives under the first composition key present, in the order
\* allOf, anyOf, oneOf.
C10_Alternatives ==
    IF "allOf" \in DOMAIN cur THEN cur.allOf
    ELSE IF "anyOf" \in DOMAIN cur THEN cur.anyOf
    ELSE cur.oneOf

C10_Walks == [i \in 1..Len(C10_Alternatives) |->
                 walk_schema(C10_Alternatives[i], top, None)]

\* The alternatives walked: all of them, or those up to the first that
\* fails.
C10_Reached ==
    IF \E i \in DOMAIN C10_Walks : C10_Walks[i].err # NoError
    THEN CHOOSE i \in DOMAIN C10_Walks :
            /\ C10_Walks[i].err # NoError
            /\ \A j \in 1..(i - 1) : C10_Walks[j].err = NoError
    ELSE Len(C10_Walks)

RECURSIVE C10_Concat(_)
C10_Concat(n) ==
    IF n = 0 THEN <<>> ELSE C10_Concat(n - 1) \o C10_Walks[n].pairs

\* C10: a node with a composition key yields exactly the concatenation of
\* the walks of the alternatives under the first key present (allOf, then
\* anyOf, then oneOf), each rooted at top, and nothing from its own type,
\* properties, additionalProperties, items or a later composition key.
C10_FirstCompositionOnly ==
    (Walked /\ HasComposition(cur)) =>
        /\ res.pairs = C10_Concat(C10_Reached)
        /\ res.err = IF C10_Reached = 0 THEN NoError
                     ELSE C10_Walks[C10_Reached].err

C10_Witness ==
    /\ Walked
    /\ {"allOf", "oneOf", "properties", "additionalProperties"} \subseteq DOMAIN cur
    /\ cur.allOf = <<Number, Uri>>
    /\ cur.oneOf = <<FreeText>>
    /\ res.pairs = << <<top, "fixed">>, <<top, "structured">> >>

C11_IsObject == Walked /\ TypeOf(cur) = Str("object") /\ ~HasComposition(cur)

C11_Properties ==
    IF "properties" \in DOMAIN cur THEN cur.properties ELSE <<>>

C11_Additional ==
    IF "additionalProperties" \in DOMAIN cur
    THEN cur.additionalProperties ELSE JNull

C11_PropertyWalks ==
    [i \in 1..Len(C11_Properties) |->
        walk_schema(C11_Properties[i].schema,
                    top \o "." \o C11_Properties[i].name, None)]

RECURSIVE C11_Concat(_)
C11_Concat(n) ==
    IF n = 0 THEN <<>> ELSE C11_Concat(n - 1) \o C11_PropertyWalks[n].pairs

\* What the properties branch yields: the leaves of the declared
\* properties, or the object itself when it declares none.
C11_OwnLeaves ==
    IF C11_Properties = <<>> THEN <<<<top, "arbitrary">>>>
    ELSE C11_Concat(Len(C11_Properties))

\* C11: an object node with properties yields the leaves of every property
\* under top.<name> and no leaf at top; whatever its properties, it yields
\* one more leaf, (top.*, arbitrary), exactly when additionalProperties is
\* true or the empty schema, and nothing more when it is false or absent.
\* (Stated for objects whose property walks all succeed.)
C11_ObjectLeaves ==
    ( /\ C11_IsObject
      /\ \A i \in DOMAIN C11_PropertyWalks : C11_PropertyWalks[i].err = NoError )
    => /\ C11_Properties # <<>> =>
              \A pair \in Range(res.pairs) : pair[1] # top
       /\ IF C11_Additional \in {JTrue, JDict(EmptyDict)}
          THEN res = [pairs |-> C11_OwnLeaves \o <<<<top \o ".*", "arbitrary">>>>,
                      err |-> NoError]
          ELSE res.pairs = C11_OwnLeaves
       /\ C11_Additional \in {JFalse, JNull} => res.err = NoError

\* C12: an object node whose properties is empty or absent and whose
\* additionalProperties is false or absent yields exactly one pair,
\* (top, arbitrary).
C12_BareObject ==
    ( /\ C11_IsObject
      /\ C11_Properties = <<>>
      /\ ("additionalProperties" \in DOMAIN cur
             => cur.additionalProperties = JFalse) )
    => res = [pairs |-> <<<<top, "arbitrary">>>>, err |-> NoError]

C12_Witness ==
    /\ Walked
    /\ cur = [type |-> Str("object"), properties |-> <<>>]
    /\ res.pairs = <<<<top, "arbitrary">>>>

C13_IsArray ==
    /\ Walked
    /\ TypeOf(cur) = Str("array")
    /\ ~HasComposition(cur)
    /\ "items" \in DOMAIN cur
    /\ cur.items # EmptyDict

\* C13: an array node with non-empty items yields exactly the leaves of
\* walking items rooted at top.*, one wildcard segment per level of array
\* nesting, and no leaf at top: an array of objects with a free-text
\* property `name` yields (top.*.name, arbitrary).
C13_ArrayLeaves ==
    C13_IsArray =>
        /\ res = walk_schema(cur.items, top \o ".*", None)
        /\ \A pair \in Range(res.pairs) : pair[1] # top
        /\ cur.items = FreeText =>
              res = [pairs |-> <<<<top \o ".*", "arbitrary">>>>, err |-> NoError]
        /\ cur.items = Named =>
              res = [pairs |-> <<<<top \o ".*.name", "arbitrary">>>>,
                     err |-> NoError]
        /\ cur.items = [type |-> Str("array"), items |-> Named] =>
              res = [pairs |-> <<<<top \o ".*.*.name", "arbitrary">>>>,
                     err |-> NoError]

C13_Witness ==
    /\ Walked
    /\ cur = [type |-> Str("array"), items |-> Named]
    /\ res.pairs = <<<<top \o ".*.name", "arbitrary">>>>

(***************************** properties of a run *************************)
(* Checked under Spec.                                                     *)

Mapping == patterns_to_capabilities

\* Runs whose processing loop is under way or over, no override applied.
BeforeOverrides == pc \in {"process", "walking", "override"} /\ oi = 0

\* C3: after a complete run every pattern of the override list maps to
\* fixed, in the mapping and in the rows written, whatever the schemas
\* yielded for it.
C3_OverridesWin ==
    pc = "done" =>
        \A i \in 1..Len(safe_contexts) :
            /\ safe_contexts[i] \in DOMAIN Mapping
            /\ Mapping[safe_contexts[i]] = "fixed"
            /\ <<safe_contexts[i], "fixed">> \in out.rows
            /\ \A c \in Capability \ {"fixed"} :
                   <<safe_contexts[i], c>> \notin out.rows

C3_Witness ==
    /\ pc = "done"
    /\ "github.event.a" \in Range(safe_contexts)
    /\ <<"github.event.a", "arbitrary">> \in yielded
    /\ Mapping["github.event.a"] = "fixed"

Rank(c) == CASE c = "fixed" -> 0 [] c = "structured" -> 1 [] c = "arbitrary" -> 2

\* The most permissive capability of a non-empty set.
MostPermissive(S) == CHOOSE c \in S : \A d \in S : Rank(d) <= Rank(c)

\* C4: before the overrides, the patterns of the mapping are the patterns
\* yielded so far, and each maps to the maximum, in the order
\* fixed < structured < arbitrary, of the capabilities yielded for it.
C4_MostPermissive ==
    BeforeOverrides =>
        /\ DOMAIN Mapping = {pair[1] : pair \in yielded}
        /\ \A p \in DOMAIN Mapping :
               Mapping[p] =
                   MostPermissive({pair[2] : pair \in {q \in yielded : q[1] = p}})

\* One event with two subevent schemas, the first yielding (a, fixed) and
\* the second (a, arbitrary).
C4_Witness ==
    /\ pc = "override" /\ oi = 0
    /\ \E e \in 1..Len(schemas_for_event) :
          /\ Len(schemas_for_event[e].schemas) = 2
          /\ walk_schema(schemas_for_event[e].schemas[1], Top, None).pairs
                = <<<<"github.event.a", "fixed">>>>
          /\ <<"github.event.a", "arbitrary">> \in
                Range(walk_schema(schemas_for_event[e].schemas[2], Top, None).pairs)
    /\ Mapping["github.event.a"] = "arbitrary"

\* The events in another order, and each event's schemas in another order.
Reorderings(sfe) ==
    LET n == Len(sfe)
        SchemaOrders ==
            {f \in [1..n -> UNION {Permutations(1..Len(sfe[i].schemas)) : i \in 1..n}] :
                \A i \in 1..n : DOMAIN f[i] = 1..Len(sfe[i].schemas)}
    IN  {[i \in 1..n |->
            [event |-> sfe[pe[i]].event,
             schemas |-> [j \in 1..Len(sfe[pe[i]].schemas) |->
                             sfe[pe[i]].schemas[ps[pe[i]][j]]]]] :
            pe \in Permutations(1..n), ps \in SchemaOrders}

\* The final mapping of a run over sfe.
FinalMapping(sfe) ==
    apply_overrides(process_events(sfe, EmptyDict).m, safe_contexts)

\* C5: the final mapping of a complete run is the final mapping of the run
\* over every reordering of its events and of the schemas of each event.
C5_OrderIndependent ==
    pc = "done" =>
        \A r \in Reorderings(schemas_for_event) :
            /\ process_events(r, EmptyDict).err = NoError
            /\ FinalMapping(r) = Mapping

C5_Witness ==
    /\ pc = "done"
    /\ \E r \in Reorderings(schemas_for_event) : r # schemas_for_event
    /\ \E p \in DOMAIN Mapping :
          /\ p \notin Range(safe_contexts)
          /\ Cardinality({q \in yielded : q[1] = p}) = 3

C6_Join(a, b) ==
    IF a = "arbitrary" \/ b = "arbitrary" THEN "arbitrary"
    ELSE IF a = "structured" \/ b = "structured" THEN "structured"
    ELSE "fixed"

\* C6: unify_capabilities is the join of fixed < structured < arbitrary
\* (arbitrary if either is, else structured if either is, else fixed), it
\* is commutative, associative and idempotent, and a merge into a pattern
\* already present stores that join.
C6_UnifyIsJoin ==
    /\ \A a, b \in Capability :
          /\ unify_capabilities(a, b) = C6_Join(a, b)
          /\ unify_capabilities(a, b) = MostPermissive({a, b})
          /\ unify_capabilities(a, b) = unify_capabilities(b, a)
    /\ \A a, b, c \in Capability :
          unify_capabilities(unify_capabilities(a, b), c)
              = unify_capabilities(a, unify_capabilities(b, c))
    /\ \A a \in Capability : unify_capabilities(a, a) = a
    /\ (pc = "walking" /\ pos > 0 /\ lastMerge[2] # "absent") =>
          Mapping[lastMerge[1]] = C6_Join(lastMerge[2], lastMerge[3])

C6_Witness ==
    /\ pc = "walking" /\ pos > 0
    /\ lastMerge = <<"github.event.a", "structured", "fixed">>
    /\ Mapping["github.event.a"] = "structured"

\* A schema that section 4.1 makes the walk reject: an unsupported or
\* missing type, an unsupported string format, an array with empty or
\* missing items, an additionalProperties other than true, false, absent
\* or the empty schema, anywhere the walk of section 4.1 goes.
RECURSIVE C8_Malformed(_, _)
C8_Malformed(schema, typ0) ==
    LET typ == IF typ0 = None THEN TypeOf(schema) ELSE typ0
        tag == IF typ = None THEN "" ELSE typ.tags[1]
    IN  IF typ.list
        THEN \E i \in 1..Len(typ.tags) : C8_Malformed(schema, Str(typ.tags[i]))
        ELSE IF HasComposition(schema)
        THEN \E i \in 1..Len(schema[FirstComposition(schema)]) :
                 C8_Malformed(schema[FirstComposition(schema)][i], None)
        ELSE CASE tag = "object" ->
                    \/ /\ "properties" \in DOMAIN schema
                       /\ \E i \in 1..Len(schema.properties) :
                              C8_Malformed(schema.properties[i].schema, None)
                    \/ /\ "additionalProperties" \in DOMAIN schema
                       /\ schema.additionalProperties \notin
                              {JTrue, JFalse, JNull, JDict(EmptyDict)}
               [] tag = "array" ->
                    \/ "items" \notin DOMAIN schema
                    \/ schema.items = EmptyDict
                    \/ C8_Malformed(schema.items, None)
               [] tag \in {"boolean", "integer", "number", "null"} -> FALSE
               [] tag = "string" ->
                    "format" \in DOMAIN schema /\ schema.format \notin Formats
               [] OTHER -> TRUE

\* C8: when a schema of the run is malformed the run aborts and the file
\* is never written.
C8_MalformedNeverWritten ==
    out.written =>
        \A e \in 1..Len(schemas_for_event) :
            \A k \in 1..Len(schemas_for_event[e].schemas) :
                ~C8_Malformed(schemas_for_event[e].schemas[k], None)

\* The part of C8 that the script does keep: an exception, once raised, is
\* caught nowhere; the run stops, with the pairs merged so far, and writes
\* nothing.
RaisedNeverWritten ==
    (error # NoError \/ pc = "failed") =>
        /\ pc = "failed" /\ error # NoError
        /\ ~out.written
        /\ ~ENABLED Next

\* The webhook keys of the table's entries, as the f-strings of lines 356
\* and 359-361 spell them.
C14_Names == <<"push", "registry_package", "status", "workflow_run">>

C14_Keys ==
    << <<"webhook-push">>,
       <<"webhook-registry-package-published",
         "webhook-registry-package-updated">>,
       <<"webhook-status">>,
       <<"webhook-workflow-run-completed",
         "webhook-workflow-run-in-progress",
         "webhook-workflow-run-requested">> >>

C14_Needed == UNION {Range(C14_Keys[i]) : i \in 1..Len(Triggers)}

\* C14: once the binding loop is over, either every key was present, and
\* each event of the table, in table order, is bound to one schema if it
\* has no subevents and to one schema per subevent, in order, otherwise;
\* or a key was absent, and the run has failed with nothing bound, nothing
\* walked, nothing merged and nothing written.
C14_BindsOrFails ==
    pc # "bind" =>
        IF C14_Needed \subseteq DOMAIN schemas
        THEN /\ error # "KeyError"
             /\ Len(schemas_for_event) = Len(Triggers)
             /\ \A i \in 1..Len(Triggers) :
                   /\ schemas_for_event[i].event = C14_Names[i]
                   /\ Len(schemas_for_event[i].schemas) =
                         (IF Triggers[i].subevents = <<>> THEN 1
                          ELSE Len(Triggers[i].subevents))
                   /\ schemas_for_event[i].schemas =
                         [j \in 1..Len(C14_Keys[i]) |-> schemas[C14_Keys[i][j]]]
        ELSE /\ pc = "failed"
             /\ error = "KeyError"
             /\ schemas_for_event = <<>>
             /\ res = NotWalked
             /\ yielded = {}
             /\ Mapping = EmptyDict
             /\ ~out.written

C14_Witness ==
    /\ pc = "failed"
    /\ error = "KeyError"
    /\ "webhook-push" \in DOMAIN schemas
    /\ "webhook-registry-package-updated" \notin DOMAIN schemas
    /\ res = NotWalked

\* C15: no step removes a pattern from the mapping, and a step that lowers
\* a pattern's capability is the override of that very pattern, to fixed;
\* the steps of process_schemas only add patterns and raise capabilities.
C15_GrowsAndRises ==
    [][\A p \in DOMAIN Mapping :
          /\ p \in DOMAIN Mapping'
          /\ Rank(Mapping'[p]) < Rank(Mapping[p]) =>
                /\ pc = "override"
                /\ oi < Len(safe_contexts)
                /\ p = safe_contexts[oi + 1]
                /\ Mapping'[p] = "fixed"]_vars

C15_Witness ==
    /\ pc = "walking" /\ pos > 0
    /\ lastMerge = <<"github.event.a", "fixed", "arbitrary">>
    /\ Mapping["github.event.a"] = "arbitrary"

\* The patterns the walker yields over all the schemas of the run.
C16_WalkedPatterns ==
    UNION {UNION {{pair[1] : pair \in
                      Range(walk_schema(schemas_for_event[e].schemas[k],
                                        Top, None).pairs)} :
                    k \in 1..Len(schemas_for_event[e].schemas)} :
             e \in 1..Len(schemas_for_event)}

\* C16: the keys of the final mapping, and the patterns of the rows
\* written, are the patterns yielded by the walks together with the
\* patterns of the override list; an override pattern that no walk yielded
\* is there, with capability fixed.
C16_FinalKeys ==
    pc = "done" =>
        /\ DOMAIN Mapping = C16_WalkedPatterns \cup Range(safe_contexts)
        /\ {row[1] : row \in out.rows} = DOMAIN Mapping
        /\ {pair[1] : pair \in yielded} = C16_WalkedPatterns
        /\ \A p \in Range(safe_contexts) \ C16_WalkedPatterns :
               <<p, "fixed">> \in out.rows

C16_Witness ==
    /\ pc = "done"
    /\ "github.event.safe" \in Range(safe_contexts)
    /\ "github.event.safe" \notin C16_WalkedPatterns
    /\ C16_WalkedPatterns # {}
    /\ Mapping["github.event.safe"] = "fixed"

====
